---- MODULE Spec2Model ----
(***************************************************************************)
(* wolfy-brain: the per-symbol neural networks (artificial-neural-network  *)
(* .js), their bootstrap chain and the ADD_PRICE message handler           *)
(* (index.js), as a state machine of the Node event loop: one action per   *)
(* callback the event loop runs, and one per operation of the outside      *)
(* world (file system, MongoDB, price feed) the callbacks wait for.        *)
(***************************************************************************)
EXTENDS Integers, Sequences, FiniteSets, TLC

\* ------------------------------------------------------------------ bounds
MaxTicks == 2       \* price records the feed stores and publishes in a run
MaxHist == 4        \* longest price history a symbol starts with
MaxLen == 5         \* longest price array handed to getTrainingSet on its own
LoopCap == 8        \* iterations of the getTrainingSet loop that are followed
MaxField == 2       \* largest value of a field of the prices the encoder is run on

\* ------------------------------------------------------- program constants
Upper == 70000000   \* 0.7 in units of 1e-8: result > 0.7
Lower == 30000000   \* 0.3 in units of 1e-8: result < 0.3
BuyAmount == 10     \* order.amount = 10
ExpectedUp == 10    \* expected = 1, in tenths
ExpectedTie == 5    \* expected = .5, in tenths
ExpectedDown == 0   \* expected = 0, in tenths

\* ------------------------------------------------------------------ values
Registry == <<"A", "B">>            \* the documents Stock.find() resolves with
Symbols == {Registry[k] : k \in 1..Len(Registry)}
Unknown == "Z"                      \* a symbol the feed knows and Stock does not
FeedSymbols == Symbols \cup {Unknown}

Undefined == [undefined |-> TRUE]   \* JavaScript's undefined
Null == [null |-> TRUE]             \* JavaScript's null
NoNumber == 0 - 1                   \* "no value" of a numeric history field

PriceDoc(o, h, l, c, v) == [open |-> o, high |-> h, low |-> l, last |-> c, volume |-> v]
PriceLow == PriceDoc(1, 1, 1, 1, 1)
PriceHigh == PriceDoc(1, 2, 1, 2, 2)
PriceDocs == {PriceLow, PriceHigh}

\* The price history a symbol starts with: lasts 1, 2, 2, 1, 1, 2, 2, 1, ...
HistDoc(k) == IF k % 4 \in {2, 3} THEN PriceHigh ELSE PriceLow
History(n) == [k \in 1..n |-> HistDoc(k)]

\* The scores network.activate is followed for, in units of 1e-8.
Scores == {29999999, 30000000, 70000000, 70000001}

Min(a, b) == IF a < b THEN a ELSE b
Max(a, b) == IF a > b THEN a ELSE b

\* ---------------------------------------------------------- feed payloads
\* The third frame of an ADD_PRICE message: the JSON text of a price
\* document, the text "null", or text that is no JSON.
PayloadOf(doc) == [kind |-> "json", doc |-> doc]
NullPayload == [kind |-> "null", doc |-> Undefined]
GarbagePayload == [kind |-> "garbage", doc |-> Undefined]
Payloads == {PayloadOf(d) : d \in PriceDocs} \cup {NullPayload, GarbagePayload}

\* JSON.parse(price.toString('utf8')): throws on text that is no JSON.
ParseThrows(payload) == payload.kind = "garbage"
JSONparse(payload) == IF payload.kind = "json" THEN payload.doc ELSE Null

\* ----------------------------------------------------------- the network
\* A synaptic network is followed by the updates its weights went through
\* since construction, by whether this instance has been activated, and by
\* the input of its last activation (<<>> before the first): propagate
\* corrects the network for the activation it finds in the neurons.
TrainOp(n) == [op |-> "train", v |-> n, on |-> <<>>]
PropagateOp(e, on) == [op |-> "propagate", v |-> e, on |-> on]
NoNetwork == [weights |-> <<>>, activated |-> FALSE, input |-> <<>>, exists |-> FALSE]
NewNetwork == [weights |-> <<>>, activated |-> FALSE, input |-> <<>>, exists |-> TRUE]

\* network.toJSON() and JSON.stringify; JSON.parse and Network.fromJSON.
NoFile == [kind |-> "ENOENT", weights |-> <<>>]
Garbage == [kind |-> "garbage", weights |-> <<>>]
Stringify(network) == [kind |-> "json", weights |-> network.weights]
FromJSONThrows(data) == data.kind # "json"
FromJSON(data) ==
    [weights |-> data.weights, activated |-> FALSE, input |-> <<>>, exists |-> TRUE]
OldSnapshot == [kind |-> "json", weights |-> <<TrainOp(1)>>]
FileContents == {NoFile, Garbage, OldSnapshot}

\* ------------------------------------------------------- the feature encoder
\* prices[j] of JavaScript is At(prices, j): undefined outside the array.
At(seq, j) == IF j >= 0 /\ j < Len(seq) THEN seq[j + 1] ELSE Undefined
\* prices.slice(a, b)
Slice(seq, a, b) == SubSeq(seq, a + 1, Min(b, Len(seq)))

Bit(b) == IF b THEN 1 ELSE 0

buildInputItemTies(past, current) ==
    << Bit(current.open >= past.open),
       Bit(current.high >= past.high),
       Bit(current.low >= past.low),
       Bit(current.last >= past.last),
       Bit(current.volume >= past.volume) >>

buildInputItem(past, current) ==
    << Bit(current.open > past.open),
       Bit(current.high > past.high),
       Bit(current.low > past.low),
       Bit(current.last > past.last),
       Bit(current.volume > past.volume) >>

RECURSIVE getInput(_, _)
getInput(window, past) ==
    IF window = <<>> THEN <<>>
    ELSE buildInputItem(past, Head(window)) \o getInput(Tail(window), past)

getOutput(window, past) ==
    [k \in 1..Len(window) |-> Bit(window[k].last > past.last)]

\* One pass of the body of getTrainingSet's loop, for loop index i.
TrainingExample(prices, i) ==
    LET past == At(prices, i - 1)
    IN  [input |-> getInput(Slice(prices, i, i + 1), past),
         output |-> getOutput(Slice(prices, i + 1, i + 2), past)]

\* The loop's condition: i !== prices.length - 2
LoopContinues(prices, i) == i # Len(prices) - 2

\* ------------------------------------------------------------------- state
VARIABLES
    chain,          \* the bootstrap promise chain: "stocks", "creating", "connected", "rejected"
    cur,            \* index in Registry of the symbol createNetwork is working on
    boot,           \* per symbol: where its createNetwork is
    loadResult,     \* per symbol: what its readFile found ("none" before)
    neuralNetworks, \* the neuralNetworks object of index.js
    file,           \* per symbol: the content of ann-<symbol>.json
    writeErrors,    \* the symbols one of whose snapshot writes has failed
    writes,         \* fs.writeFile calls whose callback has not run
    prices,         \* the Price collection, per symbol, oldest first
    orders,         \* the Order collection
    saves,          \* save() calls on Order documents that MongoDB has not answered
    outputs,        \* NetworkOutput documents handed to save()
    ticks,          \* the ADD_PRICE messages delivered so far, in order
    fed,            \* how many price records the feed has stored
    tsPc,           \* getTrainingSet: "idle", "loop", "returned"
    tsPrices,       \* getTrainingSet: its argument
    tsI,            \* getTrainingSet: the loop variable i
    tsData          \* getTrainingSet: trainingData

bootVars == <<chain, cur, boot, loadResult>>
tsVars == <<tsPc, tsPrices, tsI, tsData>>
dbVars == <<prices, orders, saves, outputs>>
vars == <<chain, cur, boot, loadResult, neuralNetworks, file, writeErrors, writes, prices,
          orders, saves, outputs, ticks, fed, tsPc, tsPrices, tsI, tsData>>

\* ---------------------------------------------------------------- orders
\* An Order document. Its _id is made when the document is constructed: the
\* tick whose handler made it and the open order it answers (0 for a BUY).
OrderDoc(id, s, amt, val, ty, act) ==
    [id |-> id, symbol |-> s, amount |-> amt, value |-> val, type |-> ty, isActive |-> act]

\* The orders a run finds in the collection: open and closed positions of
\* earlier runs.
EarlierOrders ==
    { OrderDoc(<<0, 1>>, "A", 5, 5, "BUY", TRUE),
      OrderDoc(<<0, 2>>, "B", 3, 6, "BUY", TRUE),
      OrderDoc(<<0, 3>>, "A", 10, 20, "BUY", FALSE) }

\* ------------------------------------------------------------------- ticks
\* A message: its frames, where its price document is in the collection (at,
\* 0 if the feed stored none), how far onMessage is with it, and what its
\* handler found and computed.
NoTick ==
    [symbol |-> Unknown, payload |-> NullPayload, at |-> 0, pc |-> "none", past |-> <<>>,
     expected |-> NoNumber, input |-> <<>>, result |-> <<>>,
     sell |-> "none", items |-> {}]

TickIds == 1..MaxTicks

\* ------------------------------------------------------------------- Init
\* How a symbol starts: its snapshot file and the length of its price history.
Start(f, h) == [file |-> f, hist |-> h]
UsualStart == Start(OldSnapshot, MaxHist)
\* The starts followed: every snapshot file and every history length up to
\* MaxHist for one symbol of the registry, the others starting as usual.
Starts ==
    {st \in [Symbols -> {Start(f, h) : f \in FileContents, h \in 0..MaxHist}] :
        Cardinality({s \in Symbols : st[s] # UsualStart}) <= 1}

Init ==
    /\ chain = "stocks"
    /\ cur = 0
    /\ boot = [s \in Symbols |-> "none"]
    /\ loadResult = [s \in Symbols |-> "none"]
    /\ neuralNetworks = [s \in FeedSymbols |-> NoNetwork]
    /\ \E st \in Starts :
           /\ file = [s \in Symbols |-> st[s].file]
           /\ prices = [s \in FeedSymbols |->
                           IF s \in Symbols THEN History(st[s].hist) ELSE History(MaxHist)]
    /\ writeErrors = {}
    /\ writes = {}
    /\ orders = EarlierOrders
    /\ saves = {}
    /\ outputs = {}
    /\ ticks = [t \in TickIds |-> NoTick]
    /\ fed = 0
    /\ tsPc = "idle"
    /\ tsPrices = <<>>
    /\ tsI = 0
    /\ tsData = <<>>

\* ------------------------------------------------------------- bootstrap
\* store(): the JSON text is built when store is called, the write is
\* answered later. by is the tick whose handler called store, 0 for train.
\* (StoreCallStale: the text built from the network as the step found it.)
StoreCallStale(s, by, network) ==
    [symbol |-> s, data |-> Stringify(neuralNetworks[s]), by |-> by]

StoreCall(s, by, network) == [symbol |-> s, data |-> Stringify(network), by |-> by]

\* The promise of the current symbol's createNetwork has resolved with the
\* networks nets and the positions bt: the reduce chain calls createNetwork
\* for the next symbol (new network, load() issued), or connectSocket.
ChainAdvance(nets, bt) ==
    IF cur < Len(Registry)
    THEN /\ cur' = cur + 1
         /\ chain' = "creating"
         /\ neuralNetworks' = [nets EXCEPT ![Registry[cur + 1]] = NewNetwork]
         /\ boot' = [bt EXCEPT ![Registry[cur + 1]] = "load"]
    ELSE /\ cur' = cur
         /\ chain' = "connected"
         /\ neuralNetworks' = nets
         /\ boot' = bt

\* Stock.find().exec() resolves.
StockFindResolves ==
    /\ chain = "stocks"
    /\ ChainAdvance(neuralNetworks, boot)
    /\ UNCHANGED <<loadResult, file, writeErrors, writes, dbVars, ticks, fed, tsVars>>

\* Stock.find().exec() rejects: nothing handles it.
StockFindRejects ==
    /\ chain = "stocks"
    /\ chain' = "rejected"
    /\ UNCHANGED <<cur, boot, loadResult, neuralNetworks, file, writeErrors, writes, dbVars,
                   ticks, fed, tsVars>>

\* load(): the readFile callback rejects on err and when fromJSON(JSON.parse(data)) throws.
LoadRejectsCorruptAccepted(data) == data.kind = "ENOENT"
LoadRejects(data) == data.kind = "ENOENT" \/ FromJSONThrows(data)

\* The readFile callback of load() runs, and with it the .catch of createNetwork.
LoadCallback(s) ==
    /\ chain = "creating"
    /\ boot[s] = "load"
    /\ loadResult' = [loadResult EXCEPT ![s] = file[s].kind]
    /\ IF LoadRejects(file[s])
       THEN /\ boot' = [boot EXCEPT ![s] = "find"]
            /\ UNCHANGED <<chain, cur, neuralNetworks>>
       ELSE ChainAdvance([neuralNetworks EXCEPT ![s] = FromJSON(file[s])],
                         [boot EXCEPT ![s] = "loaded"])
    /\ UNCHANGED <<file, writeErrors, writes, dbVars, ticks, fed, tsVars>>

\* train(prices): returns at once without prices.
TrainReturnsEarly(p) == Len(p) = 0

\* Price.find({ symbol }).exec() resolves and train(prices) starts.
HistoryResolves(s) ==
    /\ chain = "creating"
    /\ boot[s] = "find"
    /\ IF TrainReturnsEarly(prices[s])
       THEN /\ ChainAdvance(neuralNetworks, [boot EXCEPT ![s] = "skipped"])
            /\ UNCHANGED tsVars
       ELSE /\ boot' = [boot EXCEPT ![s] = "train"]
            /\ tsPc' = "loop"
            /\ tsPrices' = prices[s]
            /\ tsI' = 1
            /\ tsData' = <<>>
            /\ UNCHANGED <<chain, cur, neuralNetworks>>
    /\ UNCHANGED <<loadResult, file, writeErrors, writes, dbVars, ticks, fed>>

\* Price.find({ symbol }).exec() rejects: createNetwork's promise rejects, the
\* remaining links of the reduce chain and connectSocket are skipped.
HistoryRejects(s) ==
    /\ chain = "creating"
    /\ boot[s] = "find"
    /\ chain' = "rejected"
    /\ boot' = [boot EXCEPT ![s] = "failed"]
    /\ UNCHANGED <<cur, loadResult, neuralNetworks, file, writeErrors, writes, dbVars, ticks,
                   fed, tsVars>>

\* One iteration of getTrainingSet's for loop.
TrainingSetStep ==
    /\ tsPc = "loop"
    /\ LoopContinues(tsPrices, tsI)
    /\ tsI < LoopCap
    /\ tsData' = Append(tsData, TrainingExample(tsPrices, tsI))
    /\ tsI' = tsI + 1
    /\ UNCHANGED <<tsPc, tsPrices, bootVars, neuralNetworks, file, writeErrors, writes, dbVars,
                   ticks, fed>>

\* The loop's condition fails: return trainingData.
TrainingSetReturns ==
    /\ tsPc = "loop"
    /\ ~LoopContinues(tsPrices, tsI)
    /\ tsPc' = "returned"
    /\ UNCHANGED <<tsPrices, tsI, tsData, bootVars, neuralNetworks, file, writeErrors, writes,
                   dbVars, ticks, fed>>

\* trainer.train(trainingSet, ...): no example, no weight update.
TrainerTrain(network, set) ==
    IF Len(set) = 0 THEN network
    ELSE [network EXCEPT !.weights = Append(@, TrainOp(Len(set))),
                         !.activated = TRUE,
                         !.input = set[Len(set)].input]

\* The rest of train(): trainer.train, then this.store(), whose promise is
\* dropped; train returns and createNetwork's promise resolves.
TrainFinishes(s) ==
    /\ chain = "creating"
    /\ boot[s] = "train"
    /\ tsPc = "returned"
    /\ LET network == TrainerTrain(neuralNetworks[s], tsData)
       IN  /\ writes' = writes \cup {StoreCall(s, 0, network)}
           /\ ChainAdvance([neuralNetworks EXCEPT ![s] = network],
                           [boot EXCEPT ![s] = "trained"])
    /\ tsPc' = "idle"
    /\ tsPrices' = <<>>
    /\ tsI' = 0
    /\ tsData' = <<>>
    /\ UNCHANGED <<loadResult, file, writeErrors, dbVars, ticks, fed>>

\* ------------------------------------------------------------ file system
\* fs.writeFile of the store() called by tick by (0: by train) for symbol s
\* finishes. Two writeFile calls on one file that are not
\* waited for may finish in either order, or leave a mix of both texts.
WriteOutcomes(w) ==
    IF \E o \in writes : o # w /\ o.symbol = w.symbol
    THEN {w.data, Garbage}
    ELSE {w.data}

WriteCompletes(s, by) ==
    \E w \in writes :
    /\ w.symbol = s /\ w.by = by
    /\ writes' = writes \ {w}
    /\ \E data \in WriteOutcomes(w) : file' = [file EXCEPT ![w.symbol] = data]
    /\ UNCHANGED <<writeErrors, bootVars, neuralNetworks, dbVars, ticks, fed, tsVars>>

\* fs.writeFile fails: store()'s promise rejects and the file is as it was.
WriteFails(s, by) ==
    \E w \in writes :
    /\ w.symbol = s /\ w.by = by
    /\ writes' = writes \ {w}
    /\ writeErrors' = writeErrors \cup {w.symbol}
    /\ UNCHANGED <<file, bootVars, neuralNetworks, dbVars, ticks, fed, tsVars>>

\* ------------------------------------------------------------ the price feed
\* What the feed sends: any payload for the first symbol of the registry, one
\* price for every other symbol and for a symbol without a network.
FeedInputs ==
    ({Registry[1]} \X Payloads)
        \cup ((Symbols \cup {Unknown}) \X {PayloadOf(PriceHigh)})

\* The feed stores a price document and publishes it as ADD_PRICE; a payload
\* that is no price document is published only. The message reaches
\* onMessage, which issues its Price query. What the feed stored before the
\* socket subscribed is part of the history the run starts with.
FeedPublishes(s, payload) ==
    /\ chain = "connected"
    /\ fed < MaxTicks
    /\ fed' = fed + 1
    /\ prices' = IF payload.kind = "json"
                 THEN [prices EXCEPT ![s] = Append(@, payload.doc)]
                 ELSE prices
    /\ ticks' = [ticks EXCEPT ![fed + 1] =
                    [NoTick EXCEPT !.symbol = s, !.payload = payload, !.pc = "find",
                                   !.at = IF payload.kind = "json"
                                          THEN Len(prices[s]) + 1 ELSE 0]]
    /\ UNCHANGED <<bootVars, neuralNetworks, file, writeErrors, writes, orders, saves, outputs, tsVars>>

\* ------------------------------------------------------------- onMessage
\* Price.find({ symbol }).sort({'_id': 'descending'}).limit(2).skip(1):
\* the second and third newest documents, newest first.
PastQuery(docs) ==
    LET n == Len(docs)
    IN  IF n >= 3 THEN <<docs[n - 1], docs[n - 2]>>
        ELSE IF n = 2 THEN <<docs[1]>>
        ELSE <<>>

\* MongoDB runs the query of tick t.
PriceQueryExecutes(t) ==
    /\ ticks[t].pc = "find"
    /\ ticks' = [ticks EXCEPT ![t].pc = "found",
                              ![t].past = PastQuery(prices[ticks[t].symbol])]
    /\ UNCHANGED <<bootVars, neuralNetworks, file, writeErrors, writes, dbVars, fed, tsVars>>

\* The query of tick t rejects: the .then callback never runs.
PriceQueryRejects(t) ==
    /\ ticks[t].pc = "find"
    /\ ticks' = [ticks EXCEPT ![t].pc = "rejected"]
    /\ UNCHANGED <<bootVars, neuralNetworks, file, writeErrors, writes, dbVars, fed, tsVars>>

\* if (!price)
FalsyNever(price) == FALSE
Falsy(price) == price = Null

\* propagate(): the value handed to network.propagate.
ExpectedSwapped(oldPrice, newPrice) ==
    IF newPrice.last < oldPrice.last THEN ExpectedUp
    ELSE IF newPrice.last > oldPrice.last THEN ExpectedDown
    ELSE ExpectedTie
Expected(oldPrice, newPrice) ==
    IF newPrice.last > oldPrice.last THEN ExpectedUp
    ELSE IF newPrice.last < oldPrice.last THEN ExpectedDown
    ELSE ExpectedTie

\* propagate() throws a TypeError reading .last of undefined, or calling
\* .propagate of a network that is not there.
PropagateThrows(symbol, oldPrice, newPrice) ==
    \/ newPrice = Undefined
    \/ oldPrice = Undefined
    \/ ~neuralNetworks[symbol].exists

\* ArtificialNeuralNetwork.propagate(expected)
NetPropagate(network, expected) ==
    [network EXCEPT !.weights = Append(@, PropagateOp(expected, network.input))]

\* ArtificialNeuralNetwork.activate throws a TypeError in buildInputItem
\* reading .open of null or undefined.
ActivateThrows(oldPrice, newPrice) ==
    newPrice = Null \/ newPrice = Undefined \/ oldPrice = Undefined

\* ArtificialNeuralNetwork.activate(past, current): the network has been
\* activated on item. (NetActivateSkipped: the call left out.)
NetActivateSkipped(network, item) == network
NetActivate(network, item) == [network EXCEPT !.activated = TRUE, !.input = item]

\* The array network.activate returns, compared with a number: [x] > 0.7 is x > 0.7.
ToNumber(result) == result[1]
PredictsRaiseInclusive(result) == ToNumber(result) >= Upper
PredictsRaise(result) == ToNumber(result) > Upper
PredictsFall(result) == ToNumber(result) < Lower

\* buy(symbol, price): the order handed to save().
BuyOrder(t, symbol, price) ==
    OrderDoc(<<t, 0>>, symbol, BuyAmount, BuyAmount * price, "BUY", TRUE)
\* sell(): the order handed to save() for the open order item.
SellOrder(t, item, price) ==
    OrderDoc(<<t, item.id[1], item.id[2]>>, item.symbol, item.amount, item.amount * price, "SELL", FALSE)

\* order.save() of a new document; item.save() of a changed one.
InsertSave(t, doc) == [by |-> t, op |-> "insert", doc |-> doc]
UpdateSave(t, doc) == [by |-> t, op |-> "update", doc |-> doc]

\* The .then callback of onMessage runs for tick t, from JSON.parse to the
\* call of store(), or to the statement that throws.
TickCallback(t) ==
    LET tick == ticks[t]
        s == tick.symbol
        price == JSONparse(tick.payload)
        oldPast == At(tick.past, 1)
        newPast == At(tick.past, 0)
    IN
    /\ tick.pc = "found"
    /\ IF ParseThrows(tick.payload)
       THEN /\ ticks' = [ticks EXCEPT ![t].pc = "threw"]
            /\ UNCHANGED <<neuralNetworks, writes, saves, outputs>>
       ELSE IF Falsy(price)
       THEN /\ ticks' = [ticks EXCEPT ![t].pc = "null"]
            /\ UNCHANGED <<neuralNetworks, writes, saves, outputs>>
       ELSE IF PropagateThrows(s, oldPast, newPast)
       THEN /\ ticks' = [ticks EXCEPT ![t].pc = "threw"]
            /\ UNCHANGED <<neuralNetworks, writes, saves, outputs>>
       ELSE LET expected == Expected(oldPast, newPast)
                propagated == NetPropagate(neuralNetworks[s], expected)
            IN  IF ActivateThrows(newPast, price)
                THEN /\ ticks' = [ticks EXCEPT ![t].pc = "threw", ![t].expected = expected]
                     /\ neuralNetworks' = [neuralNetworks EXCEPT ![s] = propagated]
                     /\ UNCHANGED <<writes, saves, outputs>>
                ELSE \E score \in Scores :
                       LET result == <<score>>
                           network == NetActivate(propagated, buildInputItem(newPast, price))
                       IN  /\ neuralNetworks' = [neuralNetworks EXCEPT ![s] = network]
                           /\ outputs' = outputs \cup
                                  {[by |-> t, symbol |-> s, result |-> ToNumber(result)]}
                           /\ saves' = IF PredictsRaise(result)
                                       THEN saves \cup {InsertSave(t, BuyOrder(t, s, price.last))}
                                       ELSE saves
                           /\ ticks' = [ticks EXCEPT
                                  ![t].pc = "done",
                                  ![t].expected = expected,
                                  ![t].input = buildInputItem(newPast, price),
                                  ![t].result = result,
                                  ![t].sell = IF ~PredictsRaise(result) /\ PredictsFall(result)
                                              THEN "find" ELSE "none"]
                           /\ writes' = writes \cup {StoreCall(s, t, network)}
    /\ UNCHANGED <<bootVars, file, writeErrors, prices, orders, fed, tsVars>>

\* ------------------------------------------------------------------ sell
\* Order.find({ symbol, type: 'BUY', isActive: true }) of tick t's sell runs.
OpenOrders(s) ==
    {o \in orders : o.symbol = s /\ o.type = "BUY" /\ o.isActive}

SellQueryExecutes(t) ==
    /\ ticks[t].sell = "find"
    /\ ticks' = [ticks EXCEPT ![t].sell = "found", ![t].items = OpenOrders(ticks[t].symbol)]
    /\ UNCHANGED <<bootVars, neuralNetworks, file, writeErrors, writes, dbVars, fed, tsVars>>

SellQueryRejects(t) ==
    /\ ticks[t].sell = "find"
    /\ ticks' = [ticks EXCEPT ![t].sell = "rejected"]
    /\ UNCHANGED <<bootVars, neuralNetworks, file, writeErrors, writes, dbVars, fed, tsVars>>

\* The .then callback of sell: for every order found, a SELL order and the
\* order itself with isActive false are handed to save(), neither waited
\* for; then the promise sell returned resolves.
SellCallback(t) ==
    LET price == JSONparse(ticks[t].payload).last
    IN
    /\ ticks[t].sell = "found"
    /\ saves' = saves
          \cup {InsertSave(t, SellOrder(t, item, price)) : item \in ticks[t].items}
          \cup {UpdateSave(t, [item EXCEPT !.isActive = FALSE]) : item \in ticks[t].items}
    /\ ticks' = [ticks EXCEPT ![t].sell = "resolved"]
    /\ UNCHANGED <<bootVars, neuralNetworks, file, writeErrors, writes, prices, orders, outputs,
                   fed, tsVars>>

\* MongoDB answers a save of tick t's handler: a new document is added, a changed one replaces
\* the stored one. (Saves are followed until MongoDB has stored them.)
SaveCompletes(t) ==
    \E sv \in saves :
    /\ sv.by = t
    /\ saves' = saves \ {sv}
    /\ orders' = {o \in orders : o.id # sv.doc.id} \cup {sv.doc}
    /\ UNCHANGED <<bootVars, neuralNetworks, file, writeErrors, writes, prices, outputs, ticks,
                   fed, tsVars>>

\* ------------------------------------------------------------------- Next
Next ==
    \/ StockFindResolves
    \/ StockFindRejects
    \/ \E s \in Symbols : LoadCallback(s)
    \/ \E s \in Symbols : HistoryResolves(s)
    \/ \E s \in Symbols : HistoryRejects(s)
    \/ TrainingSetStep
    \/ TrainingSetReturns
    \/ \E s \in Symbols : TrainFinishes(s)
    \/ \E s \in Symbols : \E by \in 0..MaxTicks : WriteCompletes(s, by)
    \/ \E s \in Symbols : \E by \in 0..MaxTicks : WriteFails(s, by)
    \/ \E in \in FeedInputs : FeedPublishes(in[1], in[2])
    \/ \E t \in TickIds : PriceQueryExecutes(t)
    \/ \E t \in TickIds : PriceQueryRejects(t)
    \/ \E t \in TickIds : TickCallback(t)
    \/ \E t \in TickIds : SellQueryExecutes(t)
    \/ \E t \in TickIds : SellQueryRejects(t)
    \/ \E t \in TickIds : SellCallback(t)
    \/ \E t \in TickIds : SaveCompletes(t)

Spec == Init /\ [][Next]_vars

\* ------------------------------------------------ getTrainingSet on its own
\* getTrainingSet is called by train only, with an array that is not empty.
PriceArrays(n) == [1..n -> PriceDocs]

TrainingSetInit ==
    /\ chain = "creating"
    /\ cur = 1
    /\ boot = [s \in Symbols |-> IF s = Registry[1] THEN "train" ELSE "none"]
    /\ loadResult = [s \in Symbols |-> IF s = Registry[1] THEN "ENOENT" ELSE "none"]
    /\ neuralNetworks = [s \in FeedSymbols |-> IF s = Registry[1] THEN NewNetwork ELSE NoNetwork]
    /\ file = [s \in Symbols |-> NoFile]
    /\ writeErrors = {}
    /\ writes = {}
    /\ \E n \in 1..MaxLen : \E p \in PriceArrays(n) :
           /\ tsPrices = p
           /\ prices = [s \in FeedSymbols |-> IF s = Registry[1] THEN p ELSE <<>>]
    /\ orders = {}
    /\ saves = {}
    /\ outputs = {}
    /\ ticks = [t \in TickIds |-> NoTick]
    /\ fed = 0
    /\ tsPc = "loop"
    /\ tsI = 1
    /\ tsData = <<>>

TrainingSetNext == TrainingSetStep \/ TrainingSetReturns

TrainingSetSpec == TrainingSetInit /\ [][TrainingSetNext]_vars

\* ------------------------------------------- the encoder inside a handler
\* Both networks are loaded and the socket is connected; the first symbol's
\* history ends with any two price documents, the newer of which has just
\* been published, and the handler's query has answered.
AllPriceDocs ==
    {PriceDoc(o, h, l, c, v) : o \in 1..MaxField, h \in 1..MaxField, l \in 1..MaxField,
                               c \in 1..MaxField, v \in 1..MaxField}

EncoderInit ==
    /\ chain = "connected"
    /\ cur = Len(Registry)
    /\ boot = [s \in Symbols |-> "loaded"]
    /\ loadResult = [s \in Symbols |-> "json"]
    /\ neuralNetworks = [s \in FeedSymbols |->
                             IF s \in Symbols THEN FromJSON(OldSnapshot) ELSE NoNetwork]
    /\ file = [s \in Symbols |-> OldSnapshot]
    /\ writeErrors = {}
    /\ writes = {}
    /\ orders = EarlierOrders
    /\ saves = {}
    /\ outputs = {}
    /\ fed = 1
    /\ \E p \in AllPriceDocs : \E c \in AllPriceDocs :
           /\ prices = [s \in FeedSymbols |->
                           IF s = Registry[1] THEN <<PriceLow, p, c>> ELSE History(MaxHist)]
           /\ ticks = [t \in TickIds |->
                          IF t = 1
                          THEN [NoTick EXCEPT !.symbol = Registry[1], !.payload = PayloadOf(c),
                                              !.at = 3, !.pc = "found",
                                              !.past = <<p, PriceLow>>]
                          ELSE NoTick]
    /\ tsPc = "idle"
    /\ tsPrices = <<>>
    /\ tsI = 0
    /\ tsData = <<>>

EncoderNext == \E t \in TickIds : TickCallback(t)

EncoderSpec == EncoderInit /\ [][EncoderNext]_vars

\* =================================================================== claims
\* The .then callback of onMessage has run for tick t up to store().
TickRan(t) == ticks[t].pc = "found" /\ ticks'[t].pc = "done"

\* C1: in every run of the handler that reaches activate, a BUY order of
\* amount 10, active, for the tick's symbol is handed to save() iff the score
\* is above 0.7, and it is the only one; sell is started iff the score is
\* below 0.3; with a score from 0.3 to 0.7, both included, no order is saved,
\* none is changed and sell is not started.
C1_Decision ==
    [][\A t \in TickIds : TickRan(t) =>
        LET score == ticks'[t].result[1]
            new == saves' \ saves
        IN  /\ (score > Upper) <=>
                   (\E sv \in new : /\ sv.op = "insert"
                                    /\ sv.doc.symbol = ticks[t].symbol
                                    /\ sv.doc.type = "BUY"
                                    /\ sv.doc.amount = 10
                                    /\ sv.doc.isActive)
            /\ Cardinality(new) = (IF score > Upper THEN 1 ELSE 0)
            /\ (score < Lower) <=> (ticks'[t].sell = "find")
            /\ orders' = orders
            /\ (score >= Lower /\ score <= Upper) =>
                   (saves' = saves /\ ticks'[t].sell = "none")]_vars

\* C1 witness: a score of exactly 0.7 was STABLE and a score just above it
\* put a BUY order of amount 10 into the collection.
C1_Witness ==
    \E t, u \in TickIds :
        /\ ticks[t].pc = "done" /\ ticks[t].result = <<Upper>> /\ ticks[t].sell = "none"
        /\ ticks[u].pc = "done" /\ ticks[u].result = <<Upper + 1>>
        /\ \E o \in orders : o.id = <<u, 0>> /\ o.amount = 10 /\ o.isActive

\* A tick is being processed: its query is out, its callback is due, or the
\* snapshot write its callback started is not finished.
InFlight(t) ==
    \/ ticks[t].pc \in {"find", "found"}
    \/ ticks[t].pc = "done" /\ \E w \in writes : w.by = t

\* C2: at most one tick of a symbol is being processed at any time.
C2_OneInFlight ==
    \A s \in FeedSymbols :
        Cardinality({t \in TickIds : ticks[t].symbol = s /\ InFlight(t)}) <= 1

\* C3: once the socket is subscribed, every symbol of the registry has its
\* snapshot loaded, or its training skipped for want of prices, or its
\* training done and the snapshot write of that training finished.
C3_BootstrapBeforeTicks ==
    (chain = "connected" \/ \E t \in TickIds : ticks[t].pc # "none") =>
        \A s \in Symbols :
            \/ boot[s] \in {"loaded", "skipped"}
            \/ boot[s] = "trained" /\ ~(\E w \in writes : w.symbol = s /\ w.by = 0)

\* C4: when the bootstrap chain has settled after a symbol's createNetwork
\* failed, every later symbol of the registry has been loaded or trained and
\* the socket is subscribed.
C4_FailureIsolated ==
    \A k \in 1..Len(Registry) :
        (chain \in {"connected", "rejected"} /\ boot[Registry[k]] = "failed") =>
            /\ chain = "connected"
            /\ \A j \in (k + 1)..Len(Registry) :
                   boot[Registry[j]] \in {"loaded", "trained", "skipped"}

\* C5: a symbol is on the cold-start path (history query, train) iff its
\* readFile found no file or text that is no snapshot; it is ready without a
\* history query iff the file held a snapshot, and then its network is that
\* snapshot's, changed by propagate only; from the failed load to the end of
\* train's loop its network is the one the constructor made.
C5_ColdStartIffLoadFailed ==
    \A s \in Symbols :
        /\ (boot[s] \in {"find", "train", "trained", "skipped", "failed"})
               <=> (loadResult[s] \in {"ENOENT", "garbage"})
        /\ (boot[s] = "loaded") <=> (loadResult[s] = "json")
        /\ boot[s] \in {"find", "train", "failed"} => neuralNetworks[s] = NewNetwork
        /\ boot[s] = "loaded" =>
               LET w == neuralNetworks[s].weights
                   n == Len(OldSnapshot.weights)
               IN  /\ Len(w) >= n
                   /\ SubSeq(w, 1, n) = OldSnapshot.weights
                   /\ \A k \in (n + 1)..Len(w) : w[k].op = "propagate"

\* C5 witness: one symbol trained after unreadable snapshot text, another
\* was loaded from its snapshot.
C5_Witness ==
    \E s, r \in Symbols :
        /\ loadResult[s] = "garbage" /\ boot[s] = "trained"
        /\ loadResult[r] = "json" /\ boot[r] = "loaded"

\* C6: with no snapshot write of a symbol in flight, none failed, and a tick
\* of the symbol processed, the snapshot file holds the text of the network
\* in memory.
C6_SnapshotIsLatest ==
    \A s \in Symbols :
        ( /\ ~(\E w \in writes : w.symbol = s)
          /\ s \notin writeErrors
          /\ \E t \in TickIds : ticks[t].symbol = s /\ ticks[t].pc = "done" )
        => file[s] = Stringify(neuralNetworks[s])

\* C7: when the promise sell returned has resolved, every order its query
\* found is stored with isActive false and a SELL order of the same amount
\* and of value amount * price is stored for it.
C7_SellClosesAll ==
    \A t \in TickIds :
        ticks[t].sell = "resolved" =>
            \A item \in ticks[t].items :
                /\ \E o \in orders : o.id = item.id /\ ~o.isActive
                /\ \E o \in orders :
                       /\ o.type = "SELL"
                       /\ o.symbol = item.symbol
                       /\ o.amount = item.amount
                       /\ o.value = item.amount * ticks[t].payload.doc.last

\* C8: getTrainingSet never holds more than max(0, n-3) examples for an
\* array of n prices, and holds exactly that many when it returns.
C8_TrainingSetSize ==
    LET n == Len(tsPrices)
    IN  tsPc \in {"loop", "returned"} =>
            /\ Len(tsData) <= Max(0, n - 3)
            /\ tsPc = "returned" => Len(tsData) = Max(0, n - 3)

\* What C9 calls a tick that cannot be processed.
Unprocessable(t) ==
    \/ ticks[t].payload.kind \in {"null", "garbage"}
    \/ ~neuralNetworks[ticks[t].symbol].exists
    \/ Len(ticks[t].past) < 2

C10_ExpectedValue ==
    [][\A t \in TickIds : TickRan(t) =>
        LET prior == ticks[t].past[1]
            priorToPrior == ticks[t].past[2]
            value == IF priorToPrior.last < prior.last THEN 10
                     ELSE IF priorToPrior.last > prior.last THEN 0
                     ELSE 5
            s == ticks[t].symbol
        IN  /\ ticks'[t].expected = value
            /\ neuralNetworks'[s].weights =
                   Append(neuralNetworks[s].weights,
                          PropagateOp(value, neuralNetworks[s].input))]_vars

\* C10 witness: one tick propagated 0.5 for equal lasts, another 0 for a
\* falling last.
C10_Witness ==
    \E t, u \in TickIds :
        /\ ticks[t].pc = "done" /\ ticks[t].expected = ExpectedTie
        /\ ticks[t].past[1].last = ticks[t].past[2].last
        /\ ticks[u].pc = "done" /\ ticks[u].expected = ExpectedDown
        /\ ticks[u].past[1].last < ticks[u].past[2].last

\* C11: every example getTrainingSet builds from prices[i-1], prices[i],
\* prices[i+1] has the output 1 if prices[i+1].last is above prices[i].last,
\* and 0 otherwise.
C11_OutputNextAboveCurrent ==
    tsPc \in {"loop", "returned"} =>
        \A i \in 1..Len(tsData) :
            i + 2 <= Len(tsPrices) =>
                tsData[i].output =
                    << IF tsPrices[i + 2].last > tsPrices[i + 1].last THEN 1 ELSE 0 >>

\* C12: train hands the trainer a training set only if it holds an example:
\* when getTrainingSet has returned, what trainer.train is about to get is
\* not empty.
C12_NoTrainingOnEmptySet ==
    (tsPc = "returned" /\ \E s \in Symbols : boot[s] = "train") => tsData # <<>>

C14_NoInterleaving ==
    [][\A s \in Symbols :
        (chain = "connected" /\ neuralNetworks'[s] # neuralNetworks[s]) =>
            \E t \in TickIds :
                /\ ticks[t].symbol = s
                /\ TickRan(t)
                /\ \A u \in TickIds \ {t} : ticks'[u] = ticks[u]
                /\ neuralNetworks'[s].weights =
                       Append(neuralNetworks[s].weights,
                              PropagateOp(ticks'[t].expected, neuralNetworks[s].input))
                /\ neuralNetworks'[s].input = ticks'[t].input]_vars

\* C14 witness: two ticks of one symbol were processed while both their
\* queries were answered; the later propagate corrected the activation of the
\* earlier tick and the network holds the activation of the later one.
C14_Witness ==
    \E a, b \in TickIds :
        /\ a # b
        /\ ticks[a].symbol = ticks[b].symbol
        /\ ticks[a].pc = "done" /\ ticks[b].pc = "done"
        /\ ticks[a].input # ticks[b].input
        /\ LET network == neuralNetworks[ticks[a].symbol]
           IN  /\ network.weights[Len(network.weights)] =
                      PropagateOp(ticks[b].expected, ticks[a].input)
               /\ network.input = ticks[b].input

\* C15: the two records a processed tick used are the two stored just before
\* the tick's own record, the newer first; its own record is not among them.
C15_PriorRecords ==
    \A t \in TickIds :
        ticks[t].pc = "done" =>
            LET docs == prices[ticks[t].symbol]
                own == ticks[t].at
            IN  /\ own >= 3
                /\ ticks[t].past = <<docs[own - 1], docs[own - 2]>>

\* C16: in the step that processes a tick, propagate comes first (it corrects
\* the activation the network held before the step), then activate on the
\* first record of the query and the new price, then the audit record and the
\* decision, then store(): the one write the step starts carries the weights
\* as they are after this tick's propagate.
C16_StepOrder ==
    [][\A t \in TickIds : TickRan(t) =>
        LET s == ticks[t].symbol
            before == neuralNetworks[s]
            after == neuralNetworks'[s]
            update == PropagateOp(ticks'[t].expected, before.input)
        IN  /\ after.weights = Append(before.weights, update)
            /\ after.input = ticks'[t].input
            /\ after.activated
            /\ outputs' \ outputs = {[by |-> t, symbol |-> s, result |-> ticks'[t].result[1]]}
            /\ ticks[t].sell = "none"
            /\ \A sv \in saves' \ saves : sv.by = t
            /\ writes' \ writes =
                   {[symbol |-> s, by |-> t,
                     data |-> [kind |-> "json", weights |-> Append(before.weights, update)]]}]_vars

\* C16 witness: the write started by a tick that followed another tick of
\* its symbol is pending, and the last update in its text is this tick's
\* propagate, which corrected the activation of the earlier tick.
C16_Witness ==
    \E a, b \in TickIds : \E w \in writes :
        /\ a # b
        /\ ticks[a].symbol = ticks[b].symbol
        /\ ticks[a].pc = "done" /\ ticks[b].pc = "done"
        /\ w.by = b
        /\ w.data.weights[Len(w.data.weights)] = PropagateOp(ticks[b].expected, ticks[a].input)
        /\ \E o \in outputs : o.by = b

\* C17: when the handler of a tick has called store(), the order placement
\* its decision started is over: no save of the tick is pending and its sell
\* is neither waiting for its query nor for its callback.
C17_StoreAfterSideEffect ==
    \A t \in TickIds :
        (ticks[t].pc = "done" /\ \E w \in writes : w.by = t) =>
            /\ ~(\E sv \in saves : sv.by = t)
            /\ ticks[t].sell \notin {"find", "found"}

\* C18: bootstrap can always still finish. The loop of getTrainingSet ends
\* only when i equals prices.length - 2 and i only grows, so while a symbol
\* is being trained the loop index has not passed that value; once it has,
\* the reduce chain never reaches connectSocket.
C18_BootstrapCanFinish ==
    (chain = "creating" /\ tsPc = "loop") => tsI <= Len(tsPrices) - 2

\* C19: for every symbol, the orders collection never holds more SELL orders
\* than BUY orders.
C19_SellsWithinBuys ==
    \A s \in FeedSymbols :
        Cardinality({o \in orders : o.symbol = s /\ o.type = "SELL"})
            <= Cardinality({o \in orders : o.symbol = s /\ o.type = "BUY"})

\* C20: every step in which the handler of a tick calls propagate finds the
\* network of the tick's symbol activated since it was constructed or loaded.
C20_ActivatedBeforePropagate ==
    [][\A t \in TickIds :
        (ticks[t].expected = NoNumber /\ ticks'[t].expected # NoNumber) =>
            neuralNetworks[ticks[t].symbol].activated]_vars
====
